---------------------------- MODULE Spec2Model ----------------------------
(***************************************************************************)
(* Model of pkg/internal/infrastructure/terraform.go of the OpenStack      *)
(* provider extension: the computation of the Terraformer chart values,    *)
(* the rendering of the chart, the extraction of the Terraform outputs and *)
(* the composition of the InfrastructureStatus.                            *)
(*                                                                         *)
(* Every invocation of a function is a frame that is executed statement    *)
(* block by statement block (pc), so that invocations of several           *)
(* reconciliations can interleave.  A Go string is a TLA+ string, a        *)
(* pointer or an optional value is a sequence of length 0 (nil) or 1, an   *)
(* error is a string ("" is nil), a []byte is a record [bytes |-> s] and a *)
(* map[string]string is a function whose DOMAIN is a set of strings.       *)
(***************************************************************************)
EXTENDS Naturals, Sequences, FiniteSets, TLC

(***************************************************************************)
(* Bounds of the model.                                                    *)
(***************************************************************************)
\* Number of reconciliations that run concurrently in SpecConc.
NumProcs == 2
\* Longest per-region identity-endpoint table of a cloud profile.
MaxTableLen == 2

Procs == 1..NumProcs

(***************************************************************************)
(* Constants of terraform.go, lines 32-51.                                 *)
(***************************************************************************)
TerraformerPurpose == "infra"
TerraformOutputKeySSHKeyName == "key_name"
TerraformOutputKeyRouterID == "router_id"
TerraformOutputKeyNetworkID == "network_id"
TerraformOutputKeySecurityGroupID == "security_group_id"
TerraformOutputKeySecurityGroupName == "security_group_name"
TerraformOutputKeyFloatingNetworkID == "floating_network_id"
TerraformOutputKeySubnetID == "subnet_id"
DefaultRouterID == "${openstack_networking_router_v2.router.id}"

\* apiv1alpha1.PurposeNodes.
PurposeNodes == "nodes"

\* apiv1alpha1.SchemeGroupVersion, a package-level variable of the API
\* package (a struct value), as that package initialises it.
SchemeGroupVersion ==
    [Group |-> "openstack.provider.extensions.gardener.cloud", Version |-> "v1alpha1"]

\* schema.GroupVersion.String().
GroupVersionString(gv) ==
    IF gv.Group = "" THEN gv.Version ELSE gv.Group \o "/" \o gv.Version

(***************************************************************************)
(* filepath.Join on a list of non-empty path elements.                     *)
(***************************************************************************)
RECURSIVE Join(_)
Join(elems) ==
    IF elems = <<>> THEN ""
    ELSE IF Len(elems) = 1 THEN Head(elems)
    ELSE Head(elems) \o "/" \o Join(Tail(elems))

(***************************************************************************)
(* The package-level variables, lines 53-63, as package initialisation     *)
(* sets them, and with them the package-level variable of the API package  *)
(* that the functions read.                                                *)
(***************************************************************************)
ChartsPath == Join(<<"controllers", "provider-openstack", "charts">>)
InternalChartsPath == Join(<<ChartsPath, "internal">>)
StatusTypeMeta ==
    [APIVersion |-> GroupVersionString(SchemeGroupVersion),
     Kind       |-> "InfrastructureStatus"]

PackageVars ==
    [ChartsPath         |-> ChartsPath,
     InternalChartsPath |-> InternalChartsPath,
     StatusTypeMeta     |-> StatusTypeMeta,
     SchemeGroupVersion |-> SchemeGroupVersion]

(***************************************************************************)
(* Results of a call: (value, error).  val = <<>> is a nil value.          *)
(***************************************************************************)
Ok(v) == [val |-> <<v>>, err |-> ""]
Fail(e) == [val |-> <<>>, err |-> e]
NoResult == [val |-> <<>>, err |-> ""]

\* string(b) for a []byte b, and []byte(s) for a string s.
BytesToString(b) == b.bytes
StringToBytes(s) == [bytes |-> s]

\* m[k] on a Go map[string]string: the zero value for a missing key.
MapIndex(m, k) == IF k \in DOMAIN m THEN m[k] ELSE ""

(***************************************************************************)
(* helper.CloudProfileConfigFromCluster: decodes the cloud profile's       *)
(* provider config of the cluster; a decode failure is returned.           *)
(***************************************************************************)
CloudProfileConfigFromCluster(cluster) ==
    IF cluster.decodeErr # "" THEN Fail(cluster.decodeErr)
    ELSE Ok(cluster.cloudProfileConfig)

(***************************************************************************)
(* helper.FindKeyStoneURL: the URL of the region's entry of the table,     *)
(* else the non-empty fallback, else an error.                             *)
(***************************************************************************)
ConfigResolutionError == "ConfigResolutionError"

RECURSIVE LookupRegion(_, _)
LookupRegion(keyStoneURLs, region) ==
    IF keyStoneURLs = <<>> THEN <<>>
    ELSE IF Head(keyStoneURLs).region = region THEN <<Head(keyStoneURLs).url>>
    ELSE LookupRegion(Tail(keyStoneURLs), region)

FindKeyStoneURL(keyStoneURLs, keystoneURL, region) ==
    LET found == LookupRegion(keyStoneURLs, region)
    IN  IF found # <<>> THEN Ok(found[1])
        ELSE IF keystoneURL # "" THEN Ok(keystoneURL)
        ELSE Fail(ConfigResolutionError)

(***************************************************************************)
(* ComputeTerraformerChartValues, its statement blocks.                    *)
(***************************************************************************)
\* A slip of lines 77-80: the assignment createRouter = false is left out.
ResolveRouter_AlwaysCreate(config) ==
    LET router == config.networks.router
    IN  IF router # <<>>
        THEN [createRouter |-> TRUE, routerID |-> router[1].id]
        ELSE [createRouter |-> TRUE, routerID |-> DefaultRouterID]

\* Lines 72-80: the router of the config, or the router Terraform creates.
ResolveRouter(config) ==
    LET router == config.networks.router
    IN  IF router # <<>>
        THEN [createRouter |-> FALSE, routerID |-> router[1].id]
        ELSE [createRouter |-> TRUE, routerID |-> DefaultRouterID]

\* A slip of lines 92-96: the deprecated field is preferred.
ResolveWorkersCIDR_DeprecatedFirst(config) ==
    IF config.networks.worker = "" THEN config.networks.workers
    ELSE config.networks.worker

\* Lines 92-96: the workers CIDR, with the deprecated field as fallback.
ResolveWorkersCIDR(config) ==
    IF config.networks.workers = "" THEN config.networks.worker
    ELSE config.networks.workers

\* A slip of lines 119-120: the constants of routerID and networkID are
\* exchanged.
OutputKeysValues_Swapped ==
    [routerID          |-> TerraformOutputKeyNetworkID,
     networkID         |-> TerraformOutputKeyRouterID,
     keyName           |-> TerraformOutputKeySSHKeyName,
     securityGroupID   |-> TerraformOutputKeySecurityGroupID,
     securityGroupName |-> TerraformOutputKeySecurityGroupName,
     floatingNetworkID |-> TerraformOutputKeyFloatingNetworkID,
     subnetID          |-> TerraformOutputKeySubnetID]

\* Lines 118-126: the outputKeys block of the chart values.
OutputKeysValues ==
    [routerID          |-> TerraformOutputKeyRouterID,
     networkID         |-> TerraformOutputKeyNetworkID,
     keyName           |-> TerraformOutputKeySSHKeyName,
     securityGroupID   |-> TerraformOutputKeySecurityGroupID,
     securityGroupName |-> TerraformOutputKeySecurityGroupName,
     floatingNetworkID |-> TerraformOutputKeyFloatingNetworkID,
     subnetID          |-> TerraformOutputKeySubnetID]

\* Lines 98-127: the map that is returned; loc holds the local variables.
ChartValues(infra, credentials, config, loc) ==
    [openstack    |-> [authURL          |-> loc.keyStoneURL,
                       domainName       |-> credentials.domainName,
                       tenantName       |-> credentials.tenantName,
                       region           |-> infra.region,
                       floatingPoolName |-> config.floatingPoolName],
     create       |-> [router |-> loc.createRouter],
     dnsServers   |-> loc.cloudProfileConfig[1].dnsServers,
     sshPublicKey |-> BytesToString(infra.sshPublicKey),
     router       |-> [id |-> loc.routerID],
     clusterName  |-> infra.namespace,
     networks     |-> [workers |-> loc.workersCIDR],
     outputKeys   |-> OutputKeysValues]

(***************************************************************************)
(* chartrenderer.Interface: Render returns the renderer's error or a       *)
(* release, of which FileContent gives the rendered text of a file.        *)
(***************************************************************************)
Render(renderer, chartPath, releaseName, namespace, values) ==
    IF renderer.err # "" THEN Fail(renderer.err)
    ELSE Ok([chart |-> chartPath, name |-> releaseName,
             namespace |-> namespace, values |-> values])

FileContent(release, file) == [file |-> file, release |-> release]

\* Lines 148-152 and the type, lines 156-160.
TerraformFiles(release) ==
    [Main      |-> FileContent(release, "main.tf"),
     Variables |-> FileContent(release, "variables.tf"),
     TFVars    |-> StringToBytes(FileContent(release, "terraform.tfvars"))]

(***************************************************************************)
(* ExtractTerraformState.                                                  *)
(***************************************************************************)
\* Lines 182-190: the keys that are requested, in this order.
OutputKeys ==
    <<TerraformOutputKeySSHKeyName,
      TerraformOutputKeyRouterID,
      TerraformOutputKeyNetworkID,
      TerraformOutputKeySubnetID,
      TerraformOutputKeyFloatingNetworkID,
      TerraformOutputKeySecurityGroupID,
      TerraformOutputKeySecurityGroupName>>

SeqRange(s) == {s[i] : i \in DOMAIN s}

\* terraformer.Terraformer.GetStateOutputVariables: one batch fetch of the
\* given keys from the output store; the accessor's error, or the values of
\* those of the keys that the store holds.
GetStateOutputVariables(tf, keys) ==
    IF tf.err # "" THEN Fail(tf.err)
    ELSE Ok([k \in (DOMAIN tf.store) \cap SeqRange(keys) |-> tf.store[k]])

\* Lines 197-205 and the type, lines 163-178.
TerraformStateOf(vars) ==
    [SSHKeyName        |-> MapIndex(vars, TerraformOutputKeySSHKeyName),
     RouterID          |-> MapIndex(vars, TerraformOutputKeyRouterID),
     NetworkID         |-> MapIndex(vars, TerraformOutputKeyNetworkID),
     SubnetID          |-> MapIndex(vars, TerraformOutputKeySubnetID),
     FloatingNetworkID |-> MapIndex(vars, TerraformOutputKeyFloatingNetworkID),
     SecurityGroupID   |-> MapIndex(vars, TerraformOutputKeySecurityGroupID),
     SecurityGroupName |-> MapIndex(vars, TerraformOutputKeySecurityGroupName)]

\* A slip of lines 236-237: the id and the name of the security group are
\* exchanged.
StatusOf_SwappedGroup(state, groupVersion) ==
    [TypeMeta |-> [APIVersion |-> GroupVersionString(groupVersion),
                   Kind       |-> "InfrastructureStatus"],
     Networks |-> [ID           |-> state.NetworkID,
                   FloatingPool |-> [ID |-> state.FloatingNetworkID, Name |-> ""],
                   Router       |-> [ID |-> state.RouterID],
                   Subnets      |-> <<[Purpose |-> PurposeNodes,
                                       ID      |-> state.SubnetID]>>],
     SecurityGroups |-> <<[Purpose |-> PurposeNodes,
                           ID      |-> state.SecurityGroupName,
                           Name    |-> state.SecurityGroupID]>>,
     Node |-> [KeyName |-> state.SSHKeyName]]

(***************************************************************************)
(* StatusFromTerraformState, lines 211-247, with groupVersion the value of *)
(* apiv1alpha1.SchemeGroupVersion that line 215 reads.  A field the        *)
(* composite literal does not set holds its zero value.                    *)
(***************************************************************************)
StatusOf(state, groupVersion) ==
    [TypeMeta |-> [APIVersion |-> GroupVersionString(groupVersion),
                   Kind       |-> "InfrastructureStatus"],
     Networks |-> [ID           |-> state.NetworkID,
                   FloatingPool |-> [ID |-> state.FloatingNetworkID, Name |-> ""],
                   Router       |-> [ID |-> state.RouterID],
                   Subnets      |-> <<[Purpose |-> PurposeNodes,
                                       ID      |-> state.SubnetID]>>],
     SecurityGroups |-> <<[Purpose |-> PurposeNodes,
                           ID      |-> state.SecurityGroupID,
                           Name    |-> state.SecurityGroupName]>>,
     Node |-> [KeyName |-> state.SSHKeyName]]


(***************************************************************************)
(* State.                                                                  *)
(*   frame[p]   the invocation of reconciliation p: the function called    *)
(*              (op), the position in it (pc), the return positions of     *)
(*              the callers (stack), the arguments, the local variables    *)
(*              and the calls made to the Terraformer and to the renderer  *)
(*   args0[p]   the arguments as they were when the call was made          *)
(*   globals    the package-level variables                                *)
(*   reads[p]   the package-level variables the invocation of p has read   *)
(***************************************************************************)
VARIABLES frame, args0, globals, reads

vars == <<frame, args0, globals, reads>>

EmptyMap == [k \in {} |-> ""]

ZeroInfra == [region |-> "", namespace |-> "", sshPublicKey |-> [bytes |-> ""]]
ZeroCredentials == [domainName |-> "", tenantName |-> ""]
ZeroConfig ==
    [networks |-> [router |-> <<>>, workers |-> "", worker |-> ""],
     floatingPoolName |-> ""]
ZeroCloudProfileConfig ==
    [keyStoneURLs |-> <<>>, keyStoneURL |-> "", dnsServers |-> <<>>]
ZeroCluster == [decodeErr |-> "", cloudProfileConfig |-> ZeroCloudProfileConfig]
ZeroTerraformer == [err |-> "", store |-> EmptyMap]
ZeroRenderer == [err |-> ""]
ZeroState == TerraformStateOf(EmptyMap)

\* The parameters a function does not have hold these values.
ZeroArgs ==
    [infra |-> ZeroInfra, credentials |-> ZeroCredentials, config |-> ZeroConfig,
     cluster |-> ZeroCluster, tf |-> ZeroTerraformer, renderer |-> ZeroRenderer,
     state |-> ZeroState]

ZeroLoc ==
    [createRouter |-> FALSE, routerID |-> "", cloudProfileConfig |-> <<>>,
     keyStoneURL |-> "", workersCIDR |-> "", values |-> <<>>, release |-> <<>>,
     vars |-> <<>>, state |-> <<>>, r |-> NoResult]

IdleFrame ==
    [op |-> "", pc |-> "idle", stack |-> <<>>, args |-> ZeroArgs, loc |-> ZeroLoc,
     tfCalls |-> <<>>, renderCalls |-> <<>>]

\* The first statement block of each function.
Entry(op) ==
    CASE op = "ComputeTerraformerChartValues" -> "cv_router"
      [] op = "RenderTerraformerChart"        -> "rc_call"
      [] op = "ExtractTerraformState"         -> "ex_fetch"
      [] op = "StatusFromTerraformState"      -> "sf_build"
      [] op = "ComputeStatus"                 -> "cs_extract"

\* The frame of a call of op with the arguments args.
NewFrame(op, args) ==
    [IdleFrame EXCEPT !.op = op, !.pc = Entry(op), !.args = args,
                      !.loc.state = IF op = "StatusFromTerraformState"
                                    THEN <<args.state>> ELSE <<>>]

\* return r: to the caller's next statement block, or out of the call.
Return(f, r) ==
    IF f.stack = <<>>
    THEN [f EXCEPT !.pc = "done", !.loc.r = r]
    ELSE [f EXCEPT !.pc = Head(f.stack), !.stack = Tail(f.stack), !.loc.r = r]

\* A call of a function of this file from statement block of f: the callee
\* starts at entry and returns to back.
CallFrom(f, entry, back) ==
    [f EXCEPT !.pc = entry, !.stack = <<back>> \o @]


(***************************************************************************)
(* ComputeTerraformerChartValues, lines 66-128.                            *)
(***************************************************************************)
\* Lines 72-80.
CvRouter(p) ==
    /\ frame[p].pc = "cv_router"
    /\ LET f == frame[p]
           rr == ResolveRouter(f.args.config)
       IN  frame' = [frame EXCEPT ![p] =
                        [f EXCEPT !.loc.createRouter = rr.createRouter,
                                  !.loc.routerID = rr.routerID,
                                  !.pc = "cv_decode"]]
    /\ UNCHANGED <<args0, globals, reads>>

\* Lines 82-85.
CvDecode(p) ==
    /\ frame[p].pc = "cv_decode"
    /\ LET f == frame[p]
           r == CloudProfileConfigFromCluster(f.args.cluster)
       IN  frame' = [frame EXCEPT ![p] =
                        IF r.err # "" THEN Return(f, Fail(r.err))
                        ELSE [f EXCEPT !.loc.cloudProfileConfig = r.val,
                                       !.pc = "cv_keystone"]]
    /\ UNCHANGED <<args0, globals, reads>>

\* A slip of line 87: the fallback and the region are passed in each
\* other's place.
CvKeystone_SwappedArgs(p) ==
    /\ frame[p].pc = "cv_keystone"
    /\ LET f == frame[p]
           cloudProfileConfig == f.loc.cloudProfileConfig[1]
           r == FindKeyStoneURL(cloudProfileConfig.keyStoneURLs,
                                f.args.infra.region,
                                cloudProfileConfig.keyStoneURL)
       IN  frame' = [frame EXCEPT ![p] =
                        IF r.err # "" THEN Return(f, Fail(r.err))
                        ELSE [f EXCEPT !.loc.keyStoneURL = r.val[1],
                                       !.pc = "cv_workers"]]
    /\ UNCHANGED <<args0, globals, reads>>

\* A lookup that takes any of the entries of the region, as an iteration
\* over a map would, where the table holds several.
CvKeystone_AnyEntry(p) ==
    /\ frame[p].pc = "cv_keystone"
    /\ LET f == frame[p]
           cloudProfileConfig == f.loc.cloudProfileConfig[1]
           r == FindKeyStoneURL(cloudProfileConfig.keyStoneURLs,
                                cloudProfileConfig.keyStoneURL,
                                f.args.infra.region)
           urls == {cloudProfileConfig.keyStoneURLs[i].url :
                       i \in {j \in DOMAIN cloudProfileConfig.keyStoneURLs :
                                 cloudProfileConfig.keyStoneURLs[j].region =
                                     f.args.infra.region}}
       IN  \E url \in (IF urls = {} THEN {""} ELSE urls) :
               frame' = [frame EXCEPT ![p] =
                            IF r.err # "" THEN Return(f, Fail(r.err))
                            ELSE [f EXCEPT !.loc.keyStoneURL =
                                               IF urls = {} THEN r.val[1] ELSE url,
                                           !.pc = "cv_workers"]]
    /\ UNCHANGED <<args0, globals, reads>>

\* Lines 87-90.
CvKeystone(p) ==
    /\ frame[p].pc = "cv_keystone"
    /\ LET f == frame[p]
           cloudProfileConfig == f.loc.cloudProfileConfig[1]
           r == FindKeyStoneURL(cloudProfileConfig.keyStoneURLs,
                                cloudProfileConfig.keyStoneURL,
                                f.args.infra.region)
       IN  frame' = [frame EXCEPT ![p] =
                        IF r.err # "" THEN Return(f, Fail(r.err))
                        ELSE [f EXCEPT !.loc.keyStoneURL = r.val[1],
                                       !.pc = "cv_workers"]]
    /\ UNCHANGED <<args0, globals, reads>>

\* Lines 92-96.
CvWorkers(p) ==
    /\ frame[p].pc = "cv_workers"
    /\ LET f == frame[p]
       IN  frame' = [frame EXCEPT ![p] =
                        [f EXCEPT !.loc.workersCIDR = ResolveWorkersCIDR(f.args.config),
                                  !.pc = "cv_values"]]
    /\ UNCHANGED <<args0, globals, reads>>

\* Lines 98-127.
CvValues(p) ==
    /\ frame[p].pc = "cv_values"
    /\ LET f == frame[p]
       IN  frame' = [frame EXCEPT ![p] =
                        Return(f, Ok(ChartValues(f.args.infra, f.args.credentials,
                                                 f.args.config, f.loc)))]
    /\ UNCHANGED <<args0, globals, reads>>

(***************************************************************************)
(* RenderTerraformerChart, lines 131-153.                                  *)
(***************************************************************************)
\* Line 138, the call.
RcCall(p) ==
    /\ frame[p].pc = "rc_call"
    /\ frame' = [frame EXCEPT ![p] = CallFrom(frame[p], "cv_router", "rc_check")]
    /\ UNCHANGED <<args0, globals, reads>>

\* Lines 138-141, after the call.
RcCheck(p) ==
    /\ frame[p].pc = "rc_check"
    /\ LET f == frame[p]
       IN  frame' = [frame EXCEPT ![p] =
                        IF f.loc.r.err # "" THEN Return(f, Fail(f.loc.r.err))
                        ELSE [f EXCEPT !.loc.values = f.loc.r.val,
                                       !.pc = "rc_render"]]
    /\ UNCHANGED <<args0, globals, reads>>

\* Lines 143-146: reads the package-level variable InternalChartsPath.
RcRender(p) ==
    /\ frame[p].pc = "rc_render"
    /\ LET f == frame[p]
           chartPath == Join(<<globals.InternalChartsPath, "openstack-infra">>)
           call == [chartPath |-> chartPath, releaseName |-> "openstack-infra",
                    namespace |-> f.args.infra.namespace, values |-> f.loc.values[1]]
           r == Render(f.args.renderer, call.chartPath, call.releaseName,
                       call.namespace, call.values)
           g == [f EXCEPT !.renderCalls = Append(@, call)]
       IN  frame' = [frame EXCEPT ![p] =
                        IF r.err # "" THEN Return(g, Fail(r.err))
                        ELSE [g EXCEPT !.loc.release = r.val, !.pc = "rc_files"]]
    /\ reads' = [reads EXCEPT ![p] = @ \cup {"InternalChartsPath"}]
    /\ UNCHANGED <<args0, globals>>

\* Lines 148-152.
RcFiles(p) ==
    /\ frame[p].pc = "rc_files"
    /\ LET f == frame[p]
       IN  frame' = [frame EXCEPT ![p] =
                        Return(f, Ok(TerraformFiles(f.loc.release[1])))]
    /\ UNCHANGED <<args0, globals, reads>>

(***************************************************************************)
(* ExtractTerraformState, lines 181-207.                                   *)
(***************************************************************************)
\* A slip of lines 193-195: the error is returned with a state.
ExFetch_PartialOnError(p) ==
    /\ frame[p].pc = "ex_fetch"
    /\ LET f == frame[p]
           outputKeys == OutputKeys
           r == GetStateOutputVariables(f.args.tf, outputKeys)
           g == [f EXCEPT !.tfCalls = Append(@, outputKeys)]
       IN  frame' = [frame EXCEPT ![p] =
                        IF r.err # ""
                        THEN Return(g, [val |-> <<TerraformStateOf(EmptyMap)>>,
                                        err |-> r.err])
                        ELSE [g EXCEPT !.loc.vars = r.val, !.pc = "ex_state"]]
    /\ UNCHANGED <<args0, globals, reads>>

\* Lines 182-195.
ExFetch(p) ==
    /\ frame[p].pc = "ex_fetch"
    /\ LET f == frame[p]
           outputKeys == OutputKeys
           r == GetStateOutputVariables(f.args.tf, outputKeys)
           g == [f EXCEPT !.tfCalls = Append(@, outputKeys)]
       IN  frame' = [frame EXCEPT ![p] =
                        IF r.err # "" THEN Return(g, Fail(r.err))
                        ELSE [g EXCEPT !.loc.vars = r.val, !.pc = "ex_state"]]
    /\ UNCHANGED <<args0, globals, reads>>

\* Another policy for lines 197-206: a key that the fetch did not return is
\* an error.
ExState_FailsOnMissing(p) ==
    /\ frame[p].pc = "ex_state"
    /\ LET f == frame[p]
       IN  frame' = [frame EXCEPT ![p] =
                        IF SeqRange(OutputKeys) \subseteq DOMAIN f.loc.vars[1]
                        THEN Return(f, Ok(TerraformStateOf(f.loc.vars[1])))
                        ELSE Return(f, Fail("missing output variable"))]
    /\ UNCHANGED <<args0, globals, reads>>

\* Lines 197-206.
ExState(p) ==
    /\ frame[p].pc = "ex_state"
    /\ LET f == frame[p]
       IN  frame' = [frame EXCEPT ![p] =
                        Return(f, Ok(TerraformStateOf(f.loc.vars[1])))]
    /\ UNCHANGED <<args0, globals, reads>>

(***************************************************************************)
(* StatusFromTerraformState, lines 211-247, as a statement block: reads    *)
(* the package-level variable apiv1alpha1.SchemeGroupVersion.              *)
(***************************************************************************)
SfBuild(p) ==
    /\ frame[p].pc = "sf_build"
    /\ LET f == frame[p]
       IN  frame' = [frame EXCEPT ![p] =
                        Return(f, Ok(StatusOf(f.loc.state[1],
                                              globals.SchemeGroupVersion)))]
    /\ reads' = [reads EXCEPT ![p] = @ \cup {"SchemeGroupVersion"}]
    /\ UNCHANGED <<args0, globals>>

(***************************************************************************)
(* ComputeStatus, lines 250-259.                                           *)
(***************************************************************************)
\* Line 251, the call.
CsExtract(p) ==
    /\ frame[p].pc = "cs_extract"
    /\ frame' = [frame EXCEPT ![p] = CallFrom(frame[p], "ex_fetch", "cs_check")]
    /\ UNCHANGED <<args0, globals, reads>>

\* Lines 251-254, after the call, and the call of line 256.
CsCheck(p) ==
    /\ frame[p].pc = "cs_check"
    /\ LET f == frame[p]
       IN  frame' = [frame EXCEPT ![p] =
                        IF f.loc.r.err # "" THEN Return(f, Fail(f.loc.r.err))
                        ELSE CallFrom([f EXCEPT !.loc.state = f.loc.r.val],
                                      "sf_build", "cs_enrich")]
    /\ UNCHANGED <<args0, globals, reads>>

\* A slip of line 257: the assignment is left out.
CsEnrich_NoName(p) ==
    /\ frame[p].pc = "cs_enrich"
    /\ LET f == frame[p]
           status == f.loc.r.val[1]
       IN  frame' = [frame EXCEPT ![p] = Return(f, Ok(status))]
    /\ UNCHANGED <<args0, globals, reads>>

\* A slip of line 257: the assignment is written the other way round, into
\* the config of the caller.
CsEnrich_WritesConfig(p) ==
    /\ frame[p].pc = "cs_enrich"
    /\ LET f == frame[p]
           status == f.loc.r.val[1]
           g == [f EXCEPT !.args.config.floatingPoolName =
                              status.Networks.FloatingPool.Name]
       IN  frame' = [frame EXCEPT ![p] = Return(g, Ok(status))]
    /\ UNCHANGED <<args0, globals, reads>>

\* Lines 256-258, after the call.
CsEnrich(p) ==
    /\ frame[p].pc = "cs_enrich"
    /\ LET f == frame[p]
           status == [f.loc.r.val[1] EXCEPT
                         !.Networks.FloatingPool.Name = f.args.config.floatingPoolName]
       IN  frame' = [frame EXCEPT ![p] = Return(f, Ok(status))]
    /\ UNCHANGED <<args0, globals, reads>>

\* One statement block of the invocation of p.
Step(p) ==
    \/ CvRouter(p) \/ CvDecode(p) \/ CvKeystone(p) \/ CvWorkers(p) \/ CvValues(p)
    \/ RcCall(p) \/ RcCheck(p) \/ RcRender(p) \/ RcFiles(p)
    \/ ExFetch(p) \/ ExState(p)
    \/ SfBuild(p)
    \/ CsExtract(p) \/ CsCheck(p) \/ CsEnrich(p)


(***************************************************************************)
(* The arguments of the calls.                                             *)
(***************************************************************************)
Regions == {"eu", "us"}
Infras ==
    [region : Regions, namespace : {"shoot-1"},
     sshPublicKey : {[bytes |-> "ssh-rsa AAAA"]}]
CredentialsSet == {[domainName |-> "domain", tenantName |-> "tenant"]}

Routers == {<<>>, <<[id |-> "r-1"]>>, <<[id |-> ""]>>}
Configs ==
    [networks : [router : Routers, workers : {"", "10.250.0.0/16"},
                 worker : {"", "10.0.0.0/24"}],
     floatingPoolName : {"", "ext-net"}]
\* The configs that differ in what ComputeStatus reads.
StatusConfigs == {c \in Configs : c.networks = ZeroConfig.networks}

KeyStoneURLEntries ==
    {[region |-> "eu", url |-> "https://eu.example"],
     [region |-> "us", url |-> "https://us.example"],
     [region |-> "eu", url |-> "https://eu2.example"]}
KeyStoneURLTables == UNION {[1..n -> KeyStoneURLEntries] : n \in 0..MaxTableLen}
CloudProfileConfigs ==
    [keyStoneURLs : KeyStoneURLTables, keyStoneURL : {"", "https://fallback.example"},
     dnsServers : {<<>>, <<"8.8.8.8", "8.8.4.4">>}]
\* A cloud profile that decodes, or one that does not (whatever it holds).
Clusters ==
    [decodeErr : {""}, cloudProfileConfig : CloudProfileConfigs]
    \cup [decodeErr : {"ConfigDecodeError"},
          cloudProfileConfig : {c \in CloudProfileConfigs :
                                   c.dnsServers = <<>> /\ Len(c.keyStoneURLs) = 0}]

Renderers == {[err |-> ""], [err |-> "RenderError"]}

OutputValues == {"a", "b"}
OutputStores == UNION {[D -> OutputValues] : D \in SUBSET SeqRange(OutputKeys)}
FullStore == [k \in SeqRange(OutputKeys) |-> "a"]
Terraformers ==
    [err : {""}, store : OutputStores]
    \cup [err : {"StateAccessError"}, store : {EmptyMap, FullStore}]

TerraformStates ==
    [SSHKeyName : OutputValues \cup {""}, RouterID : OutputValues \cup {""},
     NetworkID : OutputValues \cup {""}, SubnetID : OutputValues \cup {""},
     FloatingNetworkID : OutputValues \cup {""},
     SecurityGroupID : OutputValues \cup {""},
     SecurityGroupName : OutputValues \cup {""}]

ValuesArgs ==
    {[ZeroArgs EXCEPT !.infra = i, !.credentials = cr, !.config = c, !.cluster = cl] :
        i \in Infras, cr \in CredentialsSet, c \in Configs, cl \in Clusters}

\* The calls of one reconciliation.
Calls ==
    {[op |-> "ComputeTerraformerChartValues", args |-> a] : a \in ValuesArgs}
    \cup {[op |-> "RenderTerraformerChart", args |-> [a EXCEPT !.renderer = r]] :
             a \in ValuesArgs, r \in Renderers}
    \cup {[op |-> "ExtractTerraformState", args |-> [ZeroArgs EXCEPT !.tf = t]] :
             t \in Terraformers}
    \cup {[op |-> "StatusFromTerraformState", args |-> [ZeroArgs EXCEPT !.state = st]] :
             st \in TerraformStates}
    \cup {[op |-> "ComputeStatus", args |-> [ZeroArgs EXCEPT !.tf = t, !.config = c]] :
             t \in Terraformers, c \in StatusConfigs}

\* The calls of the concurrent reconciliations: a few of each function.
ConcInfra == [region |-> "eu", namespace |-> "shoot-1", sshPublicKey |-> [bytes |-> "ssh-rsa AAAA"]]
ConcConfig ==
    [networks |-> [router |-> <<>>, workers |-> "", worker |-> "10.0.0.0/24"],
     floatingPoolName |-> "ext-net"]
ConcRouterConfig ==
    [networks |-> [router |-> <<[id |-> "r-1"]>>, workers |-> "10.250.0.0/16",
                   worker |-> ""],
     floatingPoolName |-> ""]
\* A cloud profile with two entries for the region of ConcInfra.
ConcCluster ==
    [decodeErr |-> "",
     cloudProfileConfig |->
         [keyStoneURLs |-> <<[region |-> "eu", url |-> "https://eu.example"],
                             [region |-> "eu", url |-> "https://eu2.example"]>>,
          keyStoneURL |-> "", dnsServers |-> <<"8.8.8.8">>]]
PartialStore == [k \in {TerraformOutputKeyFloatingNetworkID} |-> "b"]
ConcValuesArgs ==
    {[ZeroArgs EXCEPT !.infra = ConcInfra, !.config = ConcConfig, !.cluster = ConcCluster],
     [ZeroArgs EXCEPT !.infra = ConcInfra, !.config = ConcRouterConfig,
                      !.cluster = ConcCluster],
     [ZeroArgs EXCEPT !.infra = ConcInfra, !.config = ConcConfig]}
ConcCalls ==
    {[op |-> "ComputeTerraformerChartValues", args |-> a] : a \in ConcValuesArgs}
    \cup {[op |-> "RenderTerraformerChart",
           args |-> [ZeroArgs EXCEPT !.infra = ConcInfra, !.config = ConcConfig,
                                     !.cluster = ConcCluster, !.renderer = r]] :
             r \in Renderers}
    \cup {[op |-> "ExtractTerraformState",
           args |-> [ZeroArgs EXCEPT !.tf = [err |-> "", store |-> PartialStore]]]}
    \cup {[op |-> "StatusFromTerraformState",
           args |-> [ZeroArgs EXCEPT !.state = TerraformStateOf(FullStore)]]}
    \cup {[op |-> "ComputeStatus", args |-> [ZeroArgs EXCEPT !.tf = t, !.config = ConcConfig]] :
             t \in {[err |-> "", store |-> FullStore],
                    [err |-> "StateAccessError", store |-> EmptyMap]}}

(***************************************************************************)
(* The callers.                                                            *)
(***************************************************************************)
Invoke(p, c) ==
    /\ frame[p].pc = "idle"
    /\ frame' = [frame EXCEPT ![p] = NewFrame(c.op, c.args)]
    /\ args0' = [args0 EXCEPT ![p] = c.args]
    /\ UNCHANGED <<globals, reads>>

\* A reconciliation calls one of the functions.
Call(p) == frame[p].pc = "idle" /\ \E c \in Calls : Invoke(p, c)

\* One of the concurrent reconciliations calls one of the functions.
CallConc(p) == frame[p].pc = "idle" /\ \E c \in ConcCalls : Invoke(p, c)

\* The caller has taken the result.
Finish(p) ==
    /\ frame[p].pc = "done"
    /\ frame' = [frame EXCEPT ![p] = IdleFrame]
    /\ args0' = [args0 EXCEPT ![p] = ZeroArgs]
    /\ reads' = [reads EXCEPT ![p] = {}]
    /\ UNCHANGED globals

Init ==
    /\ frame = [p \in Procs |-> IdleFrame]
    /\ args0 = [p \in Procs |-> ZeroArgs]
    /\ globals = PackageVars
    /\ reads = [p \in Procs |-> {}]

\* One reconciliation, with every argument of the sets above.
Next == Call(1) \/ Step(1) \/ Finish(1)

Spec == Init /\ [][Next]_vars

\* Concurrent reconciliations.
NextConc == \E p \in Procs : CallConc(p) \/ Step(p) \/ Finish(p)

SpecConc == Init /\ [][NextConc]_vars

(***************************************************************************)
(* The functions as a whole: what an invocation that runs alone, from the  *)
(* package-level variables as initialised, returns.                        *)
(***************************************************************************)
StatusFromTerraformState(state) == StatusOf(state, SchemeGroupVersion)

ComputeTerraformerChartValues(infra, credentials, config, cluster) ==
    LET rr == ResolveRouter(config)
        cp == CloudProfileConfigFromCluster(cluster)
    IN  IF cp.err # "" THEN Fail(cp.err)
        ELSE LET ks == FindKeyStoneURL(cp.val[1].keyStoneURLs, cp.val[1].keyStoneURL,
                                       infra.region)
             IN  IF ks.err # "" THEN Fail(ks.err)
                 ELSE Ok(ChartValues(infra, credentials, config,
                            [createRouter       |-> rr.createRouter,
                             routerID           |-> rr.routerID,
                             cloudProfileConfig |-> cp.val,
                             keyStoneURL        |-> ks.val[1],
                             workersCIDR        |-> ResolveWorkersCIDR(config)]))

RenderTerraformerChart(renderer, infra, credentials, config, cluster) ==
    LET v == ComputeTerraformerChartValues(infra, credentials, config, cluster)
    IN  IF v.err # "" THEN Fail(v.err)
        ELSE LET release == Render(renderer,
                                   Join(<<InternalChartsPath, "openstack-infra">>),
                                   "openstack-infra", infra.namespace, v.val[1])
             IN  IF release.err # "" THEN Fail(release.err)
                 ELSE Ok(TerraformFiles(release.val[1]))

ExtractTerraformState(tf, config) ==
    LET r == GetStateOutputVariables(tf, OutputKeys)
    IN  IF r.err # "" THEN Fail(r.err) ELSE Ok(TerraformStateOf(r.val[1]))

ComputeStatus(tf, config) ==
    LET s == ExtractTerraformState(tf, config)
    IN  IF s.err # "" THEN Fail(s.err)
        ELSE Ok([StatusFromTerraformState(s.val[1]) EXCEPT
                    !.Networks.FloatingPool.Name = config.floatingPoolName])

RunAlone(op, a) ==
    CASE op = "ComputeTerraformerChartValues" ->
             ComputeTerraformerChartValues(a.infra, a.credentials, a.config, a.cluster)
      [] op = "RenderTerraformerChart" ->
             RenderTerraformerChart(a.renderer, a.infra, a.credentials, a.config, a.cluster)
      [] op = "ExtractTerraformState" -> ExtractTerraformState(a.tf, a.config)
      [] op = "StatusFromTerraformState" -> Ok(StatusFromTerraformState(a.state))
      [] op = "ComputeStatus" -> ComputeStatus(a.tf, a.config)

(***************************************************************************)
(* Properties.                                                             *)
(***************************************************************************)
\* The invocation of p has returned from a call of op.
Returned(p, op) == frame[p].pc = "done" /\ frame[p].op = op
\* ... with a nil error.
Succeeded(p, op) == Returned(p, op) /\ frame[p].loc.r.err = ""
\* What the invocation of p returned: the value and the error.
Result(p) == frame[p].loc.r
Value(p) == frame[p].loc.r.val[1]

\* C1: in the values of every successful ComputeTerraformerChartValues call,
\* networks.workers is the Workers field of the config when that is not empty
\* (whatever the deprecated Worker field holds), the deprecated Worker field
\* when Workers is empty, and the empty string when both are empty.
C1_WorkersResolution ==
    \A p \in Procs :
        Succeeded(p, "ComputeTerraformerChartValues") =>
            LET n == args0[p].config.networks
                w == Value(p).networks.workers
            IN  /\ n.workers # "" => w = n.workers
                /\ n.workers = "" => w = n.worker
                /\ (n.workers = "" /\ n.worker = "") => w = ""

\* C1, its case: both fields are set, to different CIDRs.
C1_Witness ==
    \E p \in Procs :
        /\ Succeeded(p, "ComputeTerraformerChartValues")
        /\ args0[p].config.networks.workers = "10.250.0.0/16"
        /\ args0[p].config.networks.worker = "10.0.0.0/24"
        /\ Value(p).networks.workers = "10.250.0.0/16"

\* C2: in the values of every successful ComputeTerraformerChartValues call,
\* without a router in the config create.router is true and router.id is
\* DefaultRouterID, and with a router create.router is false and router.id
\* is the id of that router; so create.router tells exactly whether no
\* router was provided.
C2_RouterResolution ==
    \A p \in Procs :
        Succeeded(p, "ComputeTerraformerChartValues") =>
            LET router == args0[p].config.networks.router
                v == Value(p)
            IN  /\ router = <<>> =>
                       v.create.router = TRUE /\ v.router.id = DefaultRouterID
                /\ router # <<>> =>
                       v.create.router = FALSE /\ v.router.id = router[1].id
                /\ v.create.router <=> router = <<>>

\* C2, its case: a config with the router r-1.
C2_Witness ==
    \E p \in Procs :
        /\ Succeeded(p, "ComputeTerraformerChartValues")
        /\ args0[p].config.networks.router = <<[id |-> "r-1"]>>
        /\ Value(p).create.router = FALSE
        /\ Value(p).router.id = "r-1"

\* The URLs of the entries of the table for the region.
URLsOfRegion(keyStoneURLs, region) ==
    {keyStoneURLs[i].url : i \in {j \in DOMAIN keyStoneURLs :
                                     keyStoneURLs[j].region = region}}

\* C3: for every cloud profile that decodes and every region of the
\* infrastructure, ComputeTerraformerChartValues returns: with the region in
\* the table, openstack.authURL the URL of the region's entry (also when a
\* fallback is set); otherwise, with a non-empty fallback, authURL the
\* fallback; otherwise the error ConfigResolutionError and no values.
C3_KeyStoneResolution ==
    \A p \in Procs :
        (Returned(p, "ComputeTerraformerChartValues")
            /\ args0[p].cluster.decodeErr = "") =>
            LET c == args0[p].cluster.cloudProfileConfig
                urls == URLsOfRegion(c.keyStoneURLs, args0[p].infra.region)
            IN  IF urls # {}
                THEN /\ Result(p).err = ""
                     /\ Value(p).openstack.authURL \in urls
                ELSE IF c.keyStoneURL # ""
                THEN /\ Result(p).err = ""
                     /\ Value(p).openstack.authURL = c.keyStoneURL
                ELSE Result(p) = Fail(ConfigResolutionError)

\* C3, its case: the region has one entry in the table and a fallback is set.
C3_Witness ==
    \E p \in Procs :
        /\ Succeeded(p, "ComputeTerraformerChartValues")
        /\ args0[p].infra.region = "us"
        /\ args0[p].cluster.cloudProfileConfig.keyStoneURLs =
               <<[region |-> "eu", url |-> "https://eu.example"],
                 [region |-> "us", url |-> "https://us.example"]>>
        /\ args0[p].cluster.cloudProfileConfig.keyStoneURL = "https://fallback.example"
        /\ Value(p).openstack.authURL = "https://us.example"

\* The output-key contract: the wire key of each semantic name.
WireKeys ==
    [keyName           |-> "key_name",
     routerID          |-> "router_id",
     networkID         |-> "network_id",
     securityGroupID   |-> "security_group_id",
     securityGroupName |-> "security_group_name",
     floatingNetworkID |-> "floating_network_id",
     subnetID          |-> "subnet_id"]
WireKeySet == {WireKeys[n] : n \in DOMAIN WireKeys}

\* The field of a TerraformState with the meaning of each semantic name.
StateFields(state) ==
    [keyName           |-> state.SSHKeyName,
     routerID          |-> state.RouterID,
     networkID         |-> state.NetworkID,
     securityGroupID   |-> state.SecurityGroupID,
     securityGroupName |-> state.SecurityGroupName,
     floatingNetworkID |-> state.FloatingNetworkID,
     subnetID          |-> state.SubnetID]

\* C4: the outputKeys of every values map name the seven wire keys, one per
\* semantic name; every fetch of ExtractTerraformState requests exactly
\* these seven keys; and the extracted state holds, in the field of each
\* semantic name, the store's value of the wire key that outputKeys
\* publishes under that name.
C4_OutputKeyContract ==
    \A p \in Procs :
        /\ Succeeded(p, "ComputeTerraformerChartValues") =>
               /\ Value(p).outputKeys = WireKeys
               /\ {Value(p).outputKeys[n] : n \in DOMAIN Value(p).outputKeys} = WireKeySet
               /\ Cardinality(WireKeySet) = 7
        /\ \A i \in DOMAIN frame[p].tfCalls :
               SeqRange(frame[p].tfCalls[i]) =
                   {OutputKeysValues[n] : n \in DOMAIN OutputKeysValues}
        /\ Succeeded(p, "ExtractTerraformState") =>
               \A n \in DOMAIN OutputKeysValues :
                   StateFields(Value(p))[n] =
                       MapIndex(args0[p].tf.store, OutputKeysValues[n])

\* C4, its case: an extraction from a store that holds all seven keys, with
\* a router_id that differs from the network_id.
C4_Witness ==
    \E p \in Procs :
        /\ Succeeded(p, "ExtractTerraformState")
        /\ DOMAIN args0[p].tf.store = WireKeySet
        /\ args0[p].tf.store["router_id"] = "b"
        /\ args0[p].tf.store["network_id"] = "a"
        /\ Value(p).RouterID = "b"
        /\ Len(frame[p].tfCalls) = 1

\* The seven values read back from the leaves of a status.
ReadBack(status) ==
    [SSHKeyName        |-> status.Node.KeyName,
     RouterID          |-> status.Networks.Router.ID,
     NetworkID         |-> status.Networks.ID,
     SubnetID          |-> status.Networks.Subnets[1].ID,
     FloatingNetworkID |-> status.Networks.FloatingPool.ID,
     SecurityGroupID   |-> status.SecurityGroups[1].ID,
     SecurityGroupName |-> status.SecurityGroups[1].Name]

\* C5: the status that StatusFromTerraformState builds holds each of the
\* seven values of the state unchanged in its leaf, so the state is read
\* back from the status; it has one subnet and one security group, each of
\* purpose "nodes", and an empty floatingPool.name.
C5_StatusIdentity ==
    \A p \in Procs :
        Returned(p, "StatusFromTerraformState") =>
            LET state == args0[p].state
                status == Value(p)
            IN  /\ Result(p).err = ""
                /\ status.Networks.ID = state.NetworkID
                /\ status.Networks.Router.ID = state.RouterID
                /\ Len(status.Networks.Subnets) = 1
                /\ status.Networks.Subnets[1].ID = state.SubnetID
                /\ status.Networks.Subnets[1].Purpose = "nodes"
                /\ status.Networks.FloatingPool.ID = state.FloatingNetworkID
                /\ status.Networks.FloatingPool.Name = ""
                /\ Len(status.SecurityGroups) = 1
                /\ status.SecurityGroups[1].ID = state.SecurityGroupID
                /\ status.SecurityGroups[1].Name = state.SecurityGroupName
                /\ status.SecurityGroups[1].Purpose = "nodes"
                /\ status.Node.KeyName = state.SSHKeyName
                /\ ReadBack(status) = state

\* C5, its case: a state whose values differ from field to field.
C5_Witness ==
    \E p \in Procs :
        /\ Returned(p, "StatusFromTerraformState")
        /\ args0[p].state.SecurityGroupID = "a"
        /\ args0[p].state.SecurityGroupName = "b"
        /\ args0[p].state.NetworkID = "a"
        /\ args0[p].state.FloatingNetworkID = "b"
        /\ args0[p].state.RouterID = ""
        /\ Value(p).SecurityGroups[1].Name = "b"

\* C6: every successful ComputeStatus returns the status that
\* StatusFromTerraformState builds from the extracted state, with only
\* floatingPool.name changed, to the FloatingPoolName of the config:
\* floatingPool.id is the store's floating_network_id, and nothing else
\* of the status comes from the config.
C6_ComputeStatusEnrichment ==
    \A p \in Procs :
        Succeeded(p, "ComputeStatus") =>
            LET extracted == ExtractTerraformState(args0[p].tf, args0[p].config)
                built == StatusFromTerraformState(extracted.val[1])
                status == Value(p)
            IN  /\ extracted.err = ""
                /\ status = [built EXCEPT !.Networks.FloatingPool.Name =
                                              args0[p].config.floatingPoolName]
                /\ status.Networks.FloatingPool.ID =
                       MapIndex(args0[p].tf.store, "floating_network_id")
                /\ status.Networks.FloatingPool.Name = args0[p].config.floatingPoolName
                /\ \A c \in StatusConfigs :
                       [status EXCEPT !.Networks.FloatingPool.Name = ""] =
                           [ComputeStatus(args0[p].tf, c).val[1] EXCEPT
                               !.Networks.FloatingPool.Name = ""]

\* C6, its case: the pool ext-net of the config, the network id of the store.
C6_Witness ==
    \E p \in Procs :
        /\ Succeeded(p, "ComputeStatus")
        /\ args0[p].config.floatingPoolName = "ext-net"
        /\ "floating_network_id" \in DOMAIN args0[p].tf.store
        /\ args0[p].tf.store["floating_network_id"] = "b"
        /\ Value(p).Networks.FloatingPool = [ID |-> "b", Name |-> "ext-net"]

\* The error ComputeTerraformerChartValues meets first with the arguments a:
\* the decode failure, else the failure of the endpoint resolution, else "".
ValuesError(a) ==
    IF a.cluster.decodeErr # "" THEN a.cluster.decodeErr
    ELSE FindKeyStoneURL(a.cluster.cloudProfileConfig.keyStoneURLs,
                         a.cluster.cloudProfileConfig.keyStoneURL,
                         a.infra.region).err

\* C7: a call returns an error or a value, never both and never neither.
\* ExtractTerraformState and ComputeStatus return the error of a failed
\* fetch; ComputeTerraformerChartValues returns the decode failure, and
\* with a cloud profile that decodes the failure of the endpoint
\* resolution; RenderTerraformerChart returns the error of the value
\* computation without a call of the renderer, and else the renderer's.
C7_AllOrNothing ==
    \A p \in Procs :
        LET a == args0[p]
            f == frame[p]
        IN  /\ f.pc = "done" => ((Result(p).err # "") <=> (Result(p).val = <<>>))
            /\ (f.pc = "done" /\ f.op \in {"ExtractTerraformState", "ComputeStatus"}
                    /\ a.tf.err # "") => Result(p) = Fail(a.tf.err)
            /\ (Returned(p, "ComputeTerraformerChartValues") /\ ValuesError(a) # "") =>
                   Result(p) = Fail(ValuesError(a))
            /\ (Returned(p, "RenderTerraformerChart") /\ ValuesError(a) # "") =>
                   Result(p) = Fail(ValuesError(a)) /\ f.renderCalls = <<>>
            /\ (Returned(p, "RenderTerraformerChart") /\ ValuesError(a) = ""
                    /\ a.renderer.err # "") =>
                   Result(p) = Fail(a.renderer.err) /\ Len(f.renderCalls) = 1
            /\ (f.op = "RenderTerraformerChart" /\ f.renderCalls # <<>>) =>
                   ValuesError(a) = ""

\* C7, its case: a render whose value computation failed on a cloud profile
\* that does not decode and that holds no endpoint either.
C7_Witness ==
    \E p \in Procs :
        /\ Returned(p, "RenderTerraformerChart")
        /\ args0[p].cluster.decodeErr = "ConfigDecodeError"
        /\ args0[p].cluster.cloudProfileConfig.keyStoneURL = ""
        /\ Result(p) = Fail("ConfigDecodeError")
        /\ frame[p].renderCalls = <<>>

Isolated ==
    /\ globals = PackageVars
    /\ \A p \in Procs :
           /\ frame[p].pc = "done" => Result(p) = RunAlone(frame[p].op, args0[p])
           /\ frame[p].args = args0[p]

\* C9 as stated: no invocation reads or writes a package-level variable,
\* every invocation returns under every interleaving what it returns alone,
\* and none modifies its arguments.
C9_NoGlobalStateRead == (\A p \in Procs : reads[p] = {}) /\ Isolated

\* C9 as amended: the only package-level variables an invocation reads are
\* InternalChartsPath (RenderTerraformerChart builds the chart path from
\* it) and apiv1alpha1.SchemeGroupVersion (StatusFromTerraformState stamps
\* the status with it), no invocation writes a package-level variable,
\* every invocation returns under every interleaving what it returns
\* alone, and none modifies its arguments.
C9_Isolation ==
    /\ \A p \in Procs :
           reads[p] \subseteq
               CASE frame[p].op = "RenderTerraformerChart" -> {"InternalChartsPath"}
                 [] frame[p].op \in {"StatusFromTerraformState", "ComputeStatus"} ->
                        {"SchemeGroupVersion"}
                 [] OTHER -> {}
    /\ Isolated

\* C9, its case: a render has returned its files while the invocation of
\* another reconciliation is in the middle of a ComputeStatus.
C9_Witness ==
    \E p, q \in Procs :
        /\ p # q
        /\ Succeeded(p, "RenderTerraformerChart")
        /\ frame[q].op = "ComputeStatus"
        /\ frame[q].pc = "cs_enrich"
        /\ reads[p] = {"InternalChartsPath"}
        /\ reads[q] = {"SchemeGroupVersion"}

\* C10: ExtractTerraformState fetches the seven keys in one call of the
\* accessor, and when the fetch succeeds the extraction succeeds whatever
\* keys the store lacks: the field of a missing key is the empty string, in
\* the state and in the status of ComputeStatus.
C10_MissingKeysAreEmpty ==
    \A p \in Procs :
        LET store == args0[p].tf.store
            missing == WireKeySet \ DOMAIN store
        IN  /\ (frame[p].pc = "done"
                    /\ frame[p].op \in {"ExtractTerraformState", "ComputeStatus"}) =>
                   /\ Len(frame[p].tfCalls) = 1
                   /\ Len(frame[p].tfCalls[1]) = 7
                   /\ SeqRange(frame[p].tfCalls[1]) = WireKeySet
                   /\ args0[p].tf.err = "" => Result(p).err = ""
            /\ Succeeded(p, "ExtractTerraformState") =>
                   \A n \in DOMAIN WireKeys :
                       WireKeys[n] \in missing => StateFields(Value(p))[n] = ""
            /\ Succeeded(p, "ComputeStatus") =>
                   \A n \in DOMAIN WireKeys :
                       WireKeys[n] \in missing =>
                           StateFields(ReadBack(Value(p)))[n] = ""

\* C10, its case: an extraction from a store that lacks subnet_id.
C10_Witness ==
    \E p \in Procs :
        /\ Succeeded(p, "ExtractTerraformState")
        /\ DOMAIN args0[p].tf.store = WireKeySet \ {"subnet_id"}
        /\ Value(p).SubnetID = ""
        /\ Value(p).NetworkID = "a"

=============================================================================
